---------------------------- MODULE Spec2Model ----------------------------
(***************************************************************************)
(* Project/conversation archive manager (MCP "project-context-manager").   *)
(*                                                                         *)
(* The store is the module-level state of the server process: projects,    *)
(* currentProject, conversations, notes, decisions, documentation and      *)
(* idMapping, persisted as projects.json and conversation_id_mapping.json. *)
(* Project operations, persistence and migration follow V3.3.2             *)
(* (index.ts.backup20250813); conversation-id regeneration/resolution,     *)
(* duplicate detection/cleanup, conversation summarisation and the         *)
(* documentation/decision handlers follow V3.2.2 (unnamed/part_002), which *)
(* shares the same store layout.                                           *)
(*                                                                         *)
(* Strings are sequences of characters over a small alphabet; a text is a  *)
(* sequence of lines, each line carrying its length and the features the   *)
(* code inspects.  generateId() (time + random suffix) is modelled as a    *)
(* counter: every generated id is fresh.                                   *)
(***************************************************************************)
EXTENDS Integers, Sequences, FiniteSets, TLC

VARIABLES
  running,         \* TRUE once main() has run loadData() and the server is connected
  projects,        \* let projects: Project[]
  currentProject,  \* let currentProject: Project | null  (<<>> is null)
  conversations,   \* let conversations: Conversation[]
  notes,           \* let notes: Note[]
  decisions,       \* let decisions: TechnicalDecision[]
  documentation,   \* let documentation: Documentation[]
  idMapping,       \* let idMapping: ConversationMapping (entries in key insertion order)
  disk,            \* PROJECTS_FILE: <<>> when absent, else <<document>>
  mapFile,         \* ID_MAPPING_FILE: <<>> when absent, else <<mapping>>
  legacy,          \* the documents found under LEGACY_PATHS
  nextId,          \* the next value generateId() yields
  clock,           \* the calendar day new Date() falls on
  reply,           \* the reply (or error) of the last request
  history,         \* ghost: current id of each live conversation -> every id it has carried
  regenerated,     \* ghost: regenerateAllConversationIds() has been applied
  backups,         \* the 'backup_<timestamp>' subdirectories of BACKUP_DIR, by timestamp
  everBackups,     \* ghost: the timestamp of every backup createBackup() has made
  now,             \* the instant new Date() returns, in milliseconds
  inflight,        \* the request handlers suspended at an await, in order of arrival
  manualBackups,   \* the dashboard's 'manual_backups' directory: timestamp -> copy
  dashboardRenames \* ghost: the dashboard renames that have returned success

vars == <<running, projects, currentProject, conversations, notes, decisions,
          documentation, idMapping, disk, mapFile, legacy, nextId, clock,
          reply, history, regenerated, backups, everBackups, now, inflight,
          manualBackups, dashboardRenames>>

-----------------------------------------------------------------------------
(* Bounds of the model *)

MaxIds == 5           \* generateId() is called at most MaxIds times
MaxProjects == 2      \* create_project is called while fewer projects exist
MaxLines == 3         \* imported texts of the archive specification have at most so many lines
MaxArchived == 1      \* conversations held at once in the archive specification
MaxDay == 2           \* the clock runs over days 1..MaxDay
StoreIds == 2         \* ids generated in the store specification
MaxConvs == 2         \* conversations held while ids are regenerated
MaxDups == 3          \* conversations held while duplicates are searched
MaxNow == 11          \* the clock runs over the instants 0..MaxNow
MaxInflight == 2      \* request handlers suspended at once
MaxCalls == 3         \* requests handed over while handlers may be suspended
MaxBackupNow == 1     \* instants over which the dashboard is followed
MaxSummaryLines == 8  \* a content of at most so many lines is summarised (again)

NoId == 0             \* undefined / absent id

-----------------------------------------------------------------------------
(* Generic helpers *)

Range(s) == {s[i] : i \in 1..Len(s)}

Min(a, b) == IF a < b THEN a ELSE b

Abs(n) == IF n < 0 THEN -n ELSE n

\* Array.prototype.slice(from, to) on 0-based indices, 0 <= from
SliceSeq(s, from, to) ==
  LET t == Min(to, Len(s))
  IN IF from >= t THEN <<>> ELSE [i \in 1..(t - from) |-> s[from + i]]

RECURSIVE SumSeq(_)
SumSeq(s) == IF s = <<>> THEN 0 ELSE s[1] + SumSeq(Tail(s))

RECURSIVE SeqsUpTo(_, _)
SeqsUpTo(S, n) ==
  IF n = 0 THEN {<<>>}
  ELSE LET shorter == SeqsUpTo(S, n - 1)
       IN shorter \cup {Append(s, x) : s \in {q \in shorter : Len(q) = n - 1}, x \in S}

-----------------------------------------------------------------------------
(* Strings: sequences of characters.  DQ is the double quote, SQ the single *)
(* quote, BS the backslash, FS the slash, SP the space, TAB/NL/CR the       *)
(* white-space controls, CTL any other C0/C1 control character.            *)

Whitespace == {"SP", "TAB", "NL", "CR"}

\* String.prototype.toLowerCase, per character
LowerChar(c) == CASE c = "A" -> "a" [] c = "B" -> "b" [] c = "DOUBLON" -> "doublon" [] OTHER -> c

ToLowerCase(t) == [i \in 1..Len(t) |-> LowerChar(t[i])]

RECURSIVE TrimStart(_)
TrimStart(t) == IF t # <<>> /\ t[1] \in Whitespace THEN TrimStart(Tail(t)) ELSE t

RECURSIVE TrimEnd(_)
TrimEnd(t) ==
  IF t # <<>> /\ t[Len(t)] \in Whitespace THEN TrimEnd(SubSeq(t, 1, Len(t) - 1)) ELSE t

Trim(t) == TrimEnd(TrimStart(t))

ReplaceQuote(c) == IF c = "DQ" THEN "SQ" ELSE c
ReplaceLineBreak(c) == IF c \in {"CR", "NL", "TAB"} THEN "SP" ELSE c
ReplaceBackslash(c) == IF c = "BS" THEN "FS" ELSE c
IsControl(c) == c \in {"CTL", "CR", "NL", "TAB"}

SanitizeForJson(t) ==
  IF t = <<>> THEN <<>>
  ELSE LET q == [i \in 1..Len(t) |-> ReplaceQuote(t[i])]
           w == [i \in 1..Len(q) |-> ReplaceLineBreak(q[i])]
           b == [i \in 1..Len(w) |-> ReplaceBackslash(w[i])]
           s == SelectSeq(b, LAMBDA c : ~IsControl(c))
       IN Trim(s)

\* safeString(value)
SafeString(t) == SanitizeForJson(t)

\* safeToLowerCase(value)
SafeToLowerCase(t) == ToLowerCase(t)

\* value.includes('doublon'): the marker is one atom of the alphabet
IncludesDoublon(t) == \E i \in 1..Len(t) : t[i] = "doublon"

\* JavaScript truthiness of a request argument, named by its literal
JsTruthy(v) == v \notin {"false", "undefined", "null", "0"}

-----------------------------------------------------------------------------
(* Records of the store *)

Project(id, name, description, created) ==
  [id |-> id, name |-> name, description |-> description, type |-> "custom",
   technologies |-> <<>>, created |-> created, phase |-> "initial-setup",
   status |-> "active"]

Conversation(id, projectId, summary, phase, content, timestamp, archiveType, originalLength) ==
  [id |-> id, project_id |-> projectId, summary |-> summary, phase |-> phase,
   content |-> content, timestamp |-> timestamp, originalId |-> NoId,
   isArchived |-> TRUE, archiveType |-> archiveType, originalLength |-> originalLength]

Note(id, title, content, timestamp, projectId) ==
  [id |-> id, title |-> title, content |-> content, timestamp |-> timestamp,
   project_id |-> projectId]

TechnicalDecision(id, projectId, decision, reasoning, impact, timestamp) ==
  [id |-> id, project_id |-> projectId, decision |-> decision,
   reasoning |-> reasoning, impact |-> impact, timestamp |-> timestamp]

Documentation(id, projectId, technology, title, content, relevance, timestamp) ==
  [id |-> id, project_id |-> projectId, technology |-> technology, title |-> title,
   content |-> content, relevance |-> relevance, timestamp |-> timestamp]

MappingEntry(oldId, newId, projectId, title, date, phase) ==
  [oldId |-> oldId, newId |-> newId, projectId |-> projectId, title |-> title,
   date |-> date, phase |-> phase]

\* The in-memory currentProject is a reference: shared is TRUE when it is the
\* very object held in the projects array (set by create/switch/delete), FALSE
\* when it is the separate object parsed from the document by loadData().
CurrentRef(p, shared) == <<[p |-> p, shared |-> shared]>>

CurrentValue(cur) == IF cur = <<>> THEN <<>> ELSE <<cur[1].p>>

CurrentId(cur) == IF cur = <<>> THEN NoId ELSE cur[1].p.id

Ids(rows) == {rows[i].id : i \in 1..Len(rows)}

\* Array.prototype.findIndex on ids (0 when nothing is found)
FindIndexById(rows, id) ==
  IF \E i \in 1..Len(rows) : rows[i].id = id
  THEN CHOOSE i \in 1..Len(rows) :
         /\ rows[i].id = id
         /\ \A j \in 1..(i - 1) : rows[j].id # id
  ELSE 0

-----------------------------------------------------------------------------
(* Persistence *)

\* the object saveData() writes to PROJECTS_FILE
Document(ps, cur, cs, ns, ds, docs) ==
  [projects |-> ps, currentProject |-> CurrentValue(cur), conversations |-> cs,
   notes |-> ns, decisions |-> ds, documentation |-> docs]

\* a save that keeps the projects it finds in the document
SaveDataMerging ==
  disk' = <<[Document(projects', currentProject', conversations', notes', decisions',
                      documentation')
               EXCEPT !.projects = IF disk = <<>> THEN projects' ELSE disk[1].projects]>>

SaveData == disk' = <<Document(projects', currentProject', conversations', notes',
                               decisions', documentation')>>

SaveIdMapping == mapFile' = <<idMapping'>>

\* { ...idMapping, ...other }: an existing key keeps its position, a new key is appended
PutEntry(m, e) ==
  IF \E i \in 1..Len(m) : m[i].oldId = e.oldId
  THEN [i \in 1..Len(m) |-> IF m[i].oldId = e.oldId THEN e ELSE m[i]]
  ELSE Append(m, e)

RECURSIVE SpreadMapping(_, _)
SpreadMapping(m, other) ==
  IF other = <<>> THEN m ELSE SpreadMapping(PutEntry(m, other[1]), Tail(other))

\* a merge that does not look at the ids already present
NewByIdUnfiltered(existing, incoming) == incoming

\* existing.push(...incoming.filter(r => !existingIds.has(r.id)))
NewById(existing, incoming) == SelectSeq(incoming, LAMBDA r : r.id \notin Ids(existing))

\* One iteration of the loop of detectAndMigrateLegacyData over LEGACY_PATHS
MigrateFrom(st, k) ==
  IF legacy[k] = <<>> THEN st
  ELSE LET data == legacy[k][1].data
           newProjects == NewById(st.projects, data.projects)
           newConversations == NewById(st.conversations, data.conversations)
       IN [found |-> TRUE,
           migrated |-> st.migrated + Len(newProjects) + Len(newConversations),
           sources |-> Append(st.sources, k),
           projects |-> st.projects \o newProjects,
           conversations |-> st.conversations \o newConversations,
           notes |-> st.notes \o NewById(st.notes, data.notes),
           decisions |-> st.decisions \o NewById(st.decisions, data.decisions),
           documentation |-> st.documentation \o NewById(st.documentation, data.documentation),
           idMapping |-> SpreadMapping(st.idMapping, legacy[k][1].mapping)]

RECURSIVE MigrateLoop(_, _)
MigrateLoop(st, k) ==
  IF k > Len(legacy) THEN st ELSE MigrateLoop(MigrateFrom(st, k), k + 1)

DetectAndMigrateLegacyData(ps, cs, ns, ds, docs, m) ==
  MigrateLoop([found |-> FALSE, migrated |-> 0, sources |-> <<>>, projects |-> ps,
               conversations |-> cs, notes |-> ns, decisions |-> ds,
               documentation |-> docs, idMapping |-> m], 1)

\* ghost: the ids a conversation read from a document has carried
HistoryOf(cs) ==
  [id \in Ids(cs) |->
     {id} \cup UNION {{c.originalId} \ {NoId} : c \in {x \in Range(cs) : x.id = id}}]

\* ghost: the history of the conversations that remain, new ones starting theirs
KeepHistory(h, cs) ==
  [id \in Ids(cs) |-> IF id \in DOMAIN h THEN h[id] ELSE HistoryOf(cs)[id]]

-----------------------------------------------------------------------------
(* Replies *)

BaseReply(op) ==
  [op |-> op, kind |-> "ok", code |-> "", id |-> NoId,
   counts |-> <<0, 0, 0, 0>>, found |-> FALSE, migrated |-> 0, sources |-> <<>>,
   groups |-> <<>>, duplicates |-> <<>>, removed |-> 0]

ErrorReply(op, code, kind) == [BaseReply(op) EXCEPT !.kind = kind, !.code = code]

-----------------------------------------------------------------------------
(* Legacy documents: what earlier versions of the server left under        *)
(* LEGACY_PATHS.  Their ids were issued by earlier runs of generateId().   *)

LegacyProject == Project(101, <<"A">>, <<"a">>, 1)

LegacyDocA ==
  [data |-> Document(<<LegacyProject>>, CurrentRef(LegacyProject, FALSE),
                     <<Conversation(102, 101, <<"a">>, "development",
                                    <<[len |-> 5, hot |-> FALSE, kw |-> "none"]>>, 1, "full", 5)>>,
                     <<Note(103, <<"a">>, <<"a">>, 1, 101)>>,
                     <<TechnicalDecision(104, 101, <<"a">>, <<"a">>, <<"a">>, 1)>>,
                     <<Documentation(105, 101, <<"a">>, <<"a">>, <<"a">>, "high", 1)>>),
   mapping |-> <<>>]

\* a later copy of the same archive, after one more import and an id regeneration
LegacyDocB ==
  [data |-> Document(<<LegacyProject>>, CurrentRef(LegacyProject, FALSE),
                     <<[Conversation(107, 101, <<"a">>, "development",
                                     <<[len |-> 5, hot |-> FALSE, kw |-> "none"]>>, 1, "full", 5)
                          EXCEPT !.originalId = 102],
                       [Conversation(108, 101, <<"b">>, "testing",
                                     <<[len |-> 5, hot |-> FALSE, kw |-> "none"]>>, 1, "full", 5)
                          EXCEPT !.originalId = 106]>>,
                     <<Note(103, <<"a">>, <<"a">>, 1, 101)>>,
                     <<TechnicalDecision(104, 101, <<"a">>, <<"a">>, <<"a">>, 1)>>,
                     <<Documentation(105, 101, <<"a">>, <<"a">>, <<"a">>, "high", 1)>>),
   mapping |-> <<MappingEntry(102, 107, 101, <<"a">>, 1, "development"),
                 MappingEntry(106, 108, 101, <<"b">>, 1, "testing")>>]

\* what the LEGACY_PATHS locations hold, in the order of the list: nothing; one
\* old archive; the old archive and its later copy
LegacyLayouts == {<< <<>>, <<>> >>,
                  << <<LegacyDocA>>, <<>> >>,
                  << <<LegacyDocA>>, <<LegacyDocB>> >>}

-----------------------------------------------------------------------------
(* Initial state: the process before main() runs, on a machine that has    *)
(* never run this version (no main document, no mapping document).         *)

Init ==
  /\ running = FALSE
  /\ projects = <<>>
  /\ currentProject = <<>>
  /\ conversations = <<>>
  /\ notes = <<>>
  /\ decisions = <<>>
  /\ documentation = <<>>
  /\ idMapping = <<>>
  /\ disk = <<>>
  /\ mapFile = <<>>
  /\ legacy \in LegacyLayouts
  /\ nextId = 1
  /\ clock = 1
  /\ reply = BaseReply("none")
  /\ history = HistoryOf(<<>>)
  /\ regenerated = FALSE
  /\ backups = {}
  /\ everBackups = {}
  /\ now = 0
  /\ inflight = <<>>
  /\ manualBackups = [t \in {} |-> <<>>]
  /\ dashboardRenames = {}

-----------------------------------------------------------------------------
(* Backups: createBackup() makes the directory 'backup_<timestamp>' under   *)
(* BACKUP_DIR, copies the documents into it and prunes the oldest           *)
(* directories.  A timestamp is a fixed-width ISO string, so the order of   *)
(* the names is the order of the instants; two calls within the same        *)
(* millisecond share one directory.                                         *)

Retention == 10

\* a sort that leaves the oldest first (no reverse())
RECURSIVE SortAscending(_)
SortAscending(S) ==
  IF S = {} THEN <<>>
  ELSE LET least == CHOOSE t \in S : \A u \in S : t <= u
       IN <<least>> \o SortAscending(S \ {least})

\* backups.filter(startsWith('backup_')).sort().reverse()
RECURSIVE SortedBackups(_)
SortedBackups(S) ==
  IF S = {} THEN <<>>
  ELSE LET latest == CHOOSE t \in S : \A u \in S : u <= t
       IN <<latest>> \o SortedBackups(S \ {latest})

\* sortedBackups.slice(10): the directories createBackup() removes
OldBackups(sortedBackups) ==
  IF Len(sortedBackups) > Retention
  THEN Range(SliceSeq(sortedBackups, Retention, Len(sortedBackups)))
  ELSE {}

\* the subdirectory made at an instant holds the copies of the documents as
\* they are at that instant
CreateBackup ==
  LET made == backups \cup {now}
  IN /\ backups' = made \ OldBackups(SortedBackups(made))
     /\ everBackups' = everBackups \cup {now}

\* a load that reads the document without copying it first
LoadWithoutBackup == UNCHANGED <<backups, everBackups>>

\* if (await fs.pathExists(PROJECTS_FILE)) await createBackup()
BackupBeforeLoad ==
  IF disk # <<>> THEN CreateBackup ELSE UNCHANGED <<backups, everBackups>>

-----------------------------------------------------------------------------
(* Process start: main() runs loadData() on the module's initial state,    *)
(* then connects the transport.  fault names the document whose read or    *)
(* parse fails ("none", "main" or "mapping").  The backup is made before   *)
(* anything is read.                                                       *)

\* a load whose catch block does not reset what was read before the failure
LoadDataWithoutReset(fault) ==
  /\ BackupBeforeLoad
  /\ IF fault = "main"
       THEN \* readJson(PROJECTS_FILE) throws before anything is assigned
            /\ disk # <<>>
            /\ projects' = <<>> /\ currentProject' = <<>> /\ conversations' = <<>>
            /\ notes' = <<>> /\ decisions' = <<>> /\ documentation' = <<>>
            /\ idMapping' = <<>>
            /\ UNCHANGED <<disk, mapFile>>
            /\ reply' = ErrorReply("load", "", "fallback")
       ELSE IF fault = "mapping"
       THEN \* the main document is assigned, then readJson(ID_MAPPING_FILE) throws:
            \* the catch block resets the collections, not currentProject
            /\ mapFile # <<>>
            /\ projects' = (IF disk = <<>> THEN <<>> ELSE disk[1].projects)
            /\ conversations' = (IF disk = <<>> THEN <<>> ELSE disk[1].conversations)
            /\ notes' = (IF disk = <<>> THEN <<>> ELSE disk[1].notes)
            /\ decisions' = (IF disk = <<>> THEN <<>> ELSE disk[1].decisions)
            /\ documentation' = (IF disk = <<>> THEN <<>> ELSE disk[1].documentation)
            /\ idMapping' = <<>>
            /\ currentProject' = IF disk = <<>> \/ disk[1].currentProject = <<>> THEN <<>>
                                 ELSE CurrentRef(disk[1].currentProject[1], FALSE)
            /\ UNCHANGED <<disk, mapFile>>
            /\ reply' = ErrorReply("load", "", "fallback")
       ELSE LET ps == IF disk = <<>> THEN <<>> ELSE disk[1].projects
                cur == IF disk = <<>> \/ disk[1].currentProject = <<>> THEN <<>>
                       ELSE CurrentRef(disk[1].currentProject[1], FALSE)
                cs == IF disk = <<>> THEN <<>> ELSE disk[1].conversations
                ns == IF disk = <<>> THEN <<>> ELSE disk[1].notes
                ds == IF disk = <<>> THEN <<>> ELSE disk[1].decisions
                docs == IF disk = <<>> THEN <<>> ELSE disk[1].documentation
                m == IF mapFile = <<>> THEN <<>> ELSE mapFile[1]
                r == DetectAndMigrateLegacyData(ps, cs, ns, ds, docs, m)
            IN /\ projects' = r.projects
               /\ currentProject' = cur
               /\ conversations' = r.conversations
               /\ notes' = r.notes
               /\ decisions' = r.decisions
               /\ documentation' = r.documentation
               /\ idMapping' = r.idMapping
               /\ IF r.found THEN SaveData /\ SaveIdMapping ELSE UNCHANGED <<disk, mapFile>>
               /\ reply' = [BaseReply("load") EXCEPT !.found = r.found,
                              !.migrated = r.migrated, !.sources = r.sources]

LoadData(fault) ==
  /\ BackupBeforeLoad
  /\ IF fault = "main"
       THEN \* readJson(PROJECTS_FILE) throws before anything is assigned
            /\ disk # <<>>
            /\ projects' = <<>> /\ currentProject' = <<>> /\ conversations' = <<>>
            /\ notes' = <<>> /\ decisions' = <<>> /\ documentation' = <<>>
            /\ idMapping' = <<>>
            /\ UNCHANGED <<disk, mapFile>>
            /\ reply' = ErrorReply("load", "", "fallback")
       ELSE IF fault = "mapping"
       THEN \* the main document is assigned, then readJson(ID_MAPPING_FILE) throws:
            \* the catch block resets the collections, not currentProject
            /\ mapFile # <<>>
            /\ projects' = <<>> /\ conversations' = <<>>
            /\ notes' = <<>> /\ decisions' = <<>> /\ documentation' = <<>>
            /\ idMapping' = <<>>
            /\ currentProject' = IF disk = <<>> \/ disk[1].currentProject = <<>> THEN <<>>
                                 ELSE CurrentRef(disk[1].currentProject[1], FALSE)
            /\ UNCHANGED <<disk, mapFile>>
            /\ reply' = ErrorReply("load", "", "fallback")
       ELSE LET ps == IF disk = <<>> THEN <<>> ELSE disk[1].projects
                cur == IF disk = <<>> \/ disk[1].currentProject = <<>> THEN <<>>
                       ELSE CurrentRef(disk[1].currentProject[1], FALSE)
                cs == IF disk = <<>> THEN <<>> ELSE disk[1].conversations
                ns == IF disk = <<>> THEN <<>> ELSE disk[1].notes
                ds == IF disk = <<>> THEN <<>> ELSE disk[1].decisions
                docs == IF disk = <<>> THEN <<>> ELSE disk[1].documentation
                m == IF mapFile = <<>> THEN <<>> ELSE mapFile[1]
                r == DetectAndMigrateLegacyData(ps, cs, ns, ds, docs, m)
            IN /\ projects' = r.projects
               /\ currentProject' = cur
               /\ conversations' = r.conversations
               /\ notes' = r.notes
               /\ decisions' = r.decisions
               /\ documentation' = r.documentation
               /\ idMapping' = r.idMapping
               /\ IF r.found THEN SaveData /\ SaveIdMapping ELSE UNCHANGED <<disk, mapFile>>
               /\ reply' = [BaseReply("load") EXCEPT !.found = r.found,
                              !.migrated = r.migrated, !.sources = r.sources]

Start(fault) ==
  /\ LoadData(fault)
  /\ running' = TRUE
  /\ history' = KeepHistory(history, conversations')
  /\ UNCHANGED <<legacy, nextId, clock, regenerated, now, inflight, manualBackups,
                 dashboardRenames>>

-----------------------------------------------------------------------------
(* Request handlers (CallToolRequestSchema) *)

\* if (!args || typeof args !== 'object') throw InvalidParams("Arguments manquants")
MissingArguments(op) ==
  /\ running
  /\ UNCHANGED <<manualBackups, dashboardRenames, backups, everBackups, now, inflight, running, projects, currentProject, conversations, notes, decisions,
                 documentation, idMapping, disk, mapFile, legacy, nextId, clock,
                 history, regenerated>>
  /\ reply' = ErrorReply(op, "InvalidParams", "InvalidArguments")

\* a comparison that does not fold the case
NameTakenExactly(name) ==
  \E i \in 1..Len(projects) : projects[i].name = name

\* projects.find(p => p.name.toLowerCase() === projectName.toLowerCase())
NameTaken(name) ==
  \E i \in 1..Len(projects) : ToLowerCase(projects[i].name) = ToLowerCase(name)

\* a creation that does not switch to the new project
CreateProjectKeepingCurrent(name, description) ==
  /\ running
  /\ UNCHANGED <<manualBackups, dashboardRenames, backups, everBackups, now, inflight, running, conversations, notes, decisions, documentation, idMapping,
                 mapFile, legacy, clock, history, regenerated>>
  /\ nextId <= MaxIds
  /\ Len(projects) < MaxProjects
  /\ IF NameTaken(name)
     THEN /\ reply' = ErrorReply("create_project", "InvalidParams", "DuplicateName")
          /\ UNCHANGED <<projects, currentProject, disk, nextId>>
     ELSE LET project == Project(nextId, SanitizeForJson(name),
                                 SanitizeForJson(description), clock)
          IN /\ projects' = Append(projects, project)
             /\ currentProject' = currentProject
             /\ nextId' = nextId + 1
             /\ reply' = [BaseReply("create_project") EXCEPT !.id = project.id]
             /\ SaveData

CreateProject(name, description) ==
  /\ running
  /\ UNCHANGED <<manualBackups, dashboardRenames, backups, everBackups, now, inflight, running, conversations, notes, decisions, documentation, idMapping,
                 mapFile, legacy, clock, history, regenerated>>
  /\ nextId <= MaxIds
  /\ Len(projects) < MaxProjects
  /\ IF NameTaken(name)
     THEN /\ reply' = ErrorReply("create_project", "InvalidParams", "DuplicateName")
          /\ UNCHANGED <<projects, currentProject, disk, nextId>>
     ELSE LET project == Project(nextId, SanitizeForJson(name),
                                 SanitizeForJson(description), clock)
          IN /\ projects' = Append(projects, project)
             /\ currentProject' = CurrentRef(project, TRUE)
             /\ nextId' = nextId + 1
             /\ reply' = [BaseReply("create_project") EXCEPT !.id = project.id]
             /\ SaveData

\* projects.find(p => p.name.toLowerCase() === new_name.toLowerCase() && p.id !== project_id)
NameTakenByOther(name, id) ==
  \E i \in 1..Len(projects) :
    ToLowerCase(projects[i].name) = ToLowerCase(name) /\ projects[i].id # id

\* a rename that takes the first project instead of the one found
RenameProjectFirst(id, newName, newDescription) ==
  /\ running
  /\ UNCHANGED <<manualBackups, dashboardRenames, backups, everBackups, now, inflight, running, conversations, notes, decisions, documentation, idMapping,
                 mapFile, legacy, nextId, clock, history, regenerated>>
  /\ LET i == IF FindIndexById(projects, id) = 0 THEN 0 ELSE 1
     IN IF i = 0
        THEN /\ reply' = ErrorReply("rename_project", "InvalidParams", "NotFound")
             /\ UNCHANGED <<projects, currentProject, disk>>
        ELSE IF NameTakenByOther(newName, id)
        THEN /\ reply' = ErrorReply("rename_project", "InvalidParams", "DuplicateName")
             /\ UNCHANGED <<projects, currentProject, disk>>
        ELSE LET renamed == [projects[i] EXCEPT
                               !.name = SanitizeForJson(newName),
                               !.description = IF newDescription # <<>>
                                               THEN SanitizeForJson(newDescription)
                                               ELSE @]
             IN /\ projects' = [projects EXCEPT ![i] = renamed]
                /\ currentProject' =
                     IF currentProject # <<>> /\ currentProject[1].shared
                        /\ currentProject[1].p.id = projects[i].id
                     THEN CurrentRef(renamed, TRUE)
                     ELSE currentProject
                /\ reply' = [BaseReply("rename_project") EXCEPT !.id = id]
                /\ SaveData

RenameProject(id, newName, newDescription) ==
  /\ running
  /\ UNCHANGED <<manualBackups, dashboardRenames, backups, everBackups, now, inflight, running, conversations, notes, decisions, documentation, idMapping,
                 mapFile, legacy, nextId, clock, history, regenerated>>
  /\ LET i == FindIndexById(projects, id)
     IN IF i = 0
        THEN /\ reply' = ErrorReply("rename_project", "InvalidParams", "NotFound")
             /\ UNCHANGED <<projects, currentProject, disk>>
        ELSE IF NameTakenByOther(newName, id)
        THEN /\ reply' = ErrorReply("rename_project", "InvalidParams", "DuplicateName")
             /\ UNCHANGED <<projects, currentProject, disk>>
        ELSE LET renamed == [projects[i] EXCEPT
                               !.name = SanitizeForJson(newName),
                               !.description = IF newDescription # <<>>
                                               THEN SanitizeForJson(newDescription)
                                               ELSE @]
             IN /\ projects' = [projects EXCEPT ![i] = renamed]
                \* the mutation is seen through currentProject only when it is the same object
                /\ currentProject' =
                     IF currentProject # <<>> /\ currentProject[1].shared
                        /\ currentProject[1].p.id = id
                     THEN CurrentRef(renamed, TRUE)
                     ELSE currentProject
                /\ reply' = [BaseReply("rename_project") EXCEPT !.id = id]
                /\ SaveData

\* ipcMain.handle('rename-project'): the dashboard process rewrites the document
\* on disk; newDescription is "undefined" when the argument is not passed
DashboardRenameProject(id, newName, newDescription) ==
  /\ UNCHANGED <<manualBackups, dashboardRenames, backups, everBackups, now, inflight, running, projects, currentProject, conversations, notes, decisions,
                 documentation, idMapping, mapFile, legacy, nextId, clock, history,
                 regenerated>>
  /\ LET ps == IF disk = <<>> THEN <<>> ELSE disk[1].projects
         i == FindIndexById(ps, id)
     IN IF i = 0
        THEN /\ reply' = ErrorReply("dashboard_rename_project", "", "NotFound")
             /\ UNCHANGED disk
        ELSE LET renamed == [ps[i] EXCEPT
                               !.name = newName,
                               !.description = IF newDescription # "undefined"
                                               THEN newDescription ELSE @]
             IN /\ disk' = <<[disk[1] EXCEPT !.projects = [ps EXCEPT ![i] = renamed]]>>
                /\ reply' = [BaseReply("dashboard_rename_project") EXCEPT !.id = id]

\* ipcMain.handle('create-backup'): the dashboard copies the documents into its
\* own directory 'manual_backups', under a name made of the instant
DashboardCreateBackup ==
  /\ UNCHANGED <<dashboardRenames, backups, everBackups, now, inflight, running, projects,
                 currentProject, conversations, notes, decisions, documentation,
                 idMapping, disk, mapFile, legacy, nextId, clock, history, regenerated>>
  /\ IF disk = <<>>
     THEN /\ reply' = ErrorReply("dashboard_create_backup", "", "NotFound")
          /\ UNCHANGED manualBackups
     ELSE /\ manualBackups' = [t \in DOMAIN manualBackups \cup {now} |->
                                 IF t = now THEN [main |-> disk, mapping |-> mapFile]
                                 ELSE manualBackups[t]]
          /\ reply' = BaseReply("dashboard_create_backup")

\* rows.filter(r => r.project_id !== projectId)
WithoutProject(rows, id) == SelectSeq(rows, LAMBDA r : r.project_id # id)

\* rows.filter(r => r.project_id === projectId).length
CountOfProject(rows, id) == Len(SelectSeq(rows, LAMBDA r : r.project_id = id))

\* a cascade that forgets the notes
DeleteProjectCompletelyKeepingNotes(id) ==
  /\ conversations' = WithoutProject(conversations, id)
  /\ notes' = notes
  /\ decisions' = WithoutProject(decisions, id)
  /\ documentation' = WithoutProject(documentation, id)
  /\ projects' = SelectSeq(projects, LAMBDA p : p.id # id)
  /\ currentProject' =
       IF currentProject # <<>> /\ currentProject[1].p.id = id
       THEN (IF Len(projects') > 0 THEN CurrentRef(projects'[1], TRUE) ELSE <<>>)
       ELSE currentProject

\* deleteProjectCompletely(projectId), once the project is found
DeleteProjectCompletely(id) ==
  /\ conversations' = WithoutProject(conversations, id)
  /\ notes' = WithoutProject(notes, id)
  /\ decisions' = WithoutProject(decisions, id)
  /\ documentation' = WithoutProject(documentation, id)
  /\ projects' = SelectSeq(projects, LAMBDA p : p.id # id)
  /\ currentProject' =
       IF currentProject # <<>> /\ currentProject[1].p.id = id
       THEN (IF Len(projects') > 0 THEN CurrentRef(projects'[1], TRUE) ELSE <<>>)
       ELSE currentProject

DeleteProject(id, confirm) ==
  /\ running
  /\ UNCHANGED <<manualBackups, dashboardRenames, backups, everBackups, now, inflight, running, idMapping, mapFile, legacy, nextId, clock, regenerated>>
  /\ IF ~JsTruthy(confirm)
     THEN /\ reply' = ErrorReply("delete_project", "InvalidParams", "ConfirmationRequired")
          /\ UNCHANGED <<projects, currentProject, conversations, notes, decisions,
                         documentation, disk, history>>
     ELSE IF FindIndexById(projects, id) = 0
     THEN \* throw new Error("Projet non trouvé"), wrapped as InternalError
          /\ reply' = ErrorReply("delete_project", "InternalError", "NotFound")
          /\ UNCHANGED <<projects, currentProject, conversations, notes, decisions,
                         documentation, disk, history>>
     ELSE /\ DeleteProjectCompletely(id)
          /\ SaveData
          /\ history' = KeepHistory(history, conversations')
          /\ reply' = [BaseReply("delete_project") EXCEPT
                         !.id = id,
                         !.counts = <<CountOfProject(conversations, id),
                                      CountOfProject(notes, id),
                                      CountOfProject(decisions, id),
                                      CountOfProject(documentation, id)>>]

SwitchProject(id) ==
  /\ running
  /\ UNCHANGED <<manualBackups, dashboardRenames, backups, everBackups, now, inflight, running, projects, conversations, notes, decisions, documentation,
                 idMapping, mapFile, legacy, nextId, clock, history, regenerated>>
  /\ LET i == FindIndexById(projects, id)
     IN IF i = 0
        THEN /\ reply' = ErrorReply("switch_project", "InvalidParams", "NotFound")
             /\ UNCHANGED <<currentProject, disk>>
        ELSE /\ currentProject' = CurrentRef(projects[i], TRUE)
             /\ reply' = [BaseReply("switch_project") EXCEPT !.id = id]
             /\ SaveData

MigrateLegacyData ==
  /\ running
  /\ UNCHANGED <<manualBackups, dashboardRenames, backups, everBackups, now, inflight, running, legacy, nextId, clock, regenerated>>
  /\ LET r == DetectAndMigrateLegacyData(projects, conversations, notes, decisions,
                                         documentation, idMapping)
     IN /\ projects' = r.projects
        /\ conversations' = r.conversations
        /\ notes' = r.notes
        /\ decisions' = r.decisions
        /\ documentation' = r.documentation
        /\ idMapping' = r.idMapping
        /\ currentProject' = currentProject
        /\ IF r.found THEN SaveData /\ SaveIdMapping ELSE UNCHANGED <<disk, mapFile>>
        /\ history' = KeepHistory(history, conversations')
        /\ reply' = [BaseReply("migrate_legacy_data") EXCEPT !.found = r.found,
                       !.migrated = r.migrated, !.sources = r.sources]

-----------------------------------------------------------------------------
(* Texts: a text is the sequence of its lines (split on the newline); a    *)
(* line carries its length, whether it holds a code fence, a leading '#'   *)
(* or one of IMPORTANT/ERROR/SUCCESS (hot), and the phase keyword it holds. *)

Line(len, hot, kw) == [len |-> len, hot |-> hot, kw |-> kw]

\* text.length: the characters of the lines plus the newlines between them
TextLength(lines) == SumSeq([i \in 1..Len(lines) |-> lines[i].len]) + Len(lines) - 1

BannerStartLen == 29   \* '=== DEBUT DE CONVERSATION ==='
BannerMiddleLen == 35  \* '=== SECTION PRINCIPALE (RESUME) ==='
BannerEndLen == 27     \* '=== FIN DE CONVERSATION ==='
LongLineLen == 100     \* line.length > 100

BannerStart == Line(BannerStartLen, FALSE, "none")
BannerMiddle == Line(BannerMiddleLen, FALSE, "none")
BannerEnd == Line(BannerEndLen, FALSE, "none")
EmptyLine == Line(0, FALSE, "none")

\* the filter of the middle section
IsImportantLine(l) == l.hot \/ l.len > LongLineLen

\* lines.slice(-n): slice(-0) is slice(0), the whole array
SliceLast(lines, n) ==
  IF n = 0 \/ n >= Len(lines) THEN lines
  ELSE [i \in 1..n |-> lines[Len(lines) - n + i]]

\* createConversationSummary(fullContent, targetReduction), the ratio in percent
CreateConversationSummary(lines, pct) ==
  LET totalLines == Len(lines)
      targetLines == (totalLines * pct) \div 100
      startLines == (targetLines * 2) \div 10
      middleLines == (targetLines * 6) \div 10
      middleStart == (totalLines * 3) \div 10
      middleEnd == (totalLines * 7) \div 10
      middleSection == SliceSeq(lines, middleStart, middleEnd)
      importantMiddle == SliceSeq(SelectSeq(middleSection, IsImportantLine), 0, middleLines)
      endLines == (targetLines * 2) \div 10
  IN <<BannerStart>> \o SliceSeq(lines, 0, startLines)
       \o <<EmptyLine, BannerMiddle>> \o importantMiddle
       \o <<EmptyLine, BannerEnd>> \o SliceLast(lines, endLines)

HasKeyword(lines, kws) == \E i \in 1..Len(lines) : lines[i].kw \in kws

\* detectConversationPhase(content): first category whose keyword occurs
DetectConversationPhase(lines) ==
  IF TextLength(lines) = 0 THEN "development"
  ELSE IF HasKeyword(lines, {"initial", "setup"}) THEN "initial-setup"
  ELSE IF HasKeyword(lines, {"development", "code"}) THEN "development"
  ELSE IF HasKeyword(lines, {"debug", "fix"}) THEN "debugging"
  ELSE IF HasKeyword(lines, {"test", "validation"}) THEN "testing"
  ELSE IF HasKeyword(lines, {"optimization"}) THEN "optimization"
  ELSE IF HasKeyword(lines, {"finalization", "production"}) THEN "finalization"
  ELSE "development"

-----------------------------------------------------------------------------
(* Handlers that add rows *)

\* an import that summarises whatever the archive type
ImportAlwaysSummarised(text, summary, phase, archiveType) ==
  /\ running
  /\ UNCHANGED <<manualBackups, dashboardRenames, backups, everBackups, now, inflight, running, projects, currentProject, notes, decisions, documentation,
                 idMapping, mapFile, legacy, clock, regenerated>>
  /\ nextId <= MaxIds
  /\ IF currentProject = <<>>
     THEN /\ reply' = ErrorReply("import_claude_conversation", "InvalidParams",
                                 "NoCurrentProject")
          /\ UNCHANGED <<conversations, disk, nextId, history>>
     ELSE LET detectedPhase == IF phase # "" THEN phase ELSE DetectConversationPhase(text)
              conversation == Conversation(nextId, currentProject[1].p.id,
                                           SanitizeForJson(summary), detectedPhase,
                                           CreateConversationSummary(text, 50), clock,
                                           archiveType, TextLength(text))
          IN /\ conversations' = Append(conversations, conversation)
             /\ nextId' = nextId + 1
             /\ history' = KeepHistory(history, conversations')
             /\ reply' = [BaseReply("import_claude_conversation") EXCEPT !.id = conversation.id]
             /\ SaveData

ImportClaudeConversation(text, summary, phase, archiveType) ==
  /\ running
  /\ UNCHANGED <<manualBackups, dashboardRenames, backups, everBackups, now, inflight, running, projects, currentProject, notes, decisions, documentation,
                 idMapping, mapFile, legacy, clock, regenerated>>
  /\ nextId <= MaxIds
  /\ IF currentProject = <<>>
     THEN /\ reply' = ErrorReply("import_claude_conversation", "InvalidParams",
                                 "NoCurrentProject")
          /\ UNCHANGED <<conversations, disk, nextId, history>>
     ELSE LET detectedPhase == IF phase # "" THEN phase ELSE DetectConversationPhase(text)
              originalLength == TextLength(text)
              finalContent == IF archiveType = "summary"
                              THEN CreateConversationSummary(text, 50)
                              ELSE text
              conversation == Conversation(nextId, currentProject[1].p.id,
                                           SanitizeForJson(summary), detectedPhase,
                                           finalContent, clock, archiveType, originalLength)
          IN /\ conversations' = Append(conversations, conversation)
             /\ nextId' = nextId + 1
             /\ history' = KeepHistory(history, conversations')
             /\ reply' = [BaseReply("import_claude_conversation") EXCEPT !.id = conversation.id]
             /\ SaveData

\* conversations.find(c => c.id === conversation_id), then summarise in place
ArchiveConversationSummary(id, pct) ==
  /\ running
  /\ UNCHANGED <<manualBackups, dashboardRenames, backups, everBackups, now, inflight, running, projects, currentProject, notes, decisions, documentation,
                 idMapping, mapFile, legacy, nextId, clock, history, regenerated>>
  /\ LET i == FindIndexById(conversations, id)
     IN IF i = 0
        THEN /\ reply' = ErrorReply("archive_conversation_summary", "InvalidParams",
                                     "NotFound")
             /\ UNCHANGED <<conversations, disk>>
        ELSE /\ conversations' =
                  [conversations EXCEPT
                     ![i].content = CreateConversationSummary(conversations[i].content, pct),
                     ![i].archiveType = "summary",
                     ![i].originalLength = TextLength(conversations[i].content)]
             /\ reply' = [BaseReply("archive_conversation_summary") EXCEPT !.id = id]
             /\ SaveData

CreateNote(title, content) ==
  /\ running
  /\ UNCHANGED <<manualBackups, dashboardRenames, backups, everBackups, now, inflight, running, projects, currentProject, conversations, decisions,
                 documentation, idMapping, mapFile, legacy, clock, history, regenerated>>
  /\ nextId <= MaxIds
  /\ notes' = Append(notes, Note(nextId, SanitizeForJson(title), SanitizeForJson(content),
                                 clock, CurrentId(currentProject)))
  /\ nextId' = nextId + 1
  /\ reply' = [BaseReply("create_note") EXCEPT !.id = nextId]
  /\ SaveData

AddDocumentation(technology, title, content) ==
  /\ running
  /\ UNCHANGED <<manualBackups, dashboardRenames, backups, everBackups, now, inflight, running, projects, currentProject, conversations, notes, decisions,
                 idMapping, mapFile, legacy, clock, history, regenerated>>
  /\ nextId <= MaxIds
  /\ IF currentProject = <<>>
     THEN /\ reply' = ErrorReply("add_documentation", "InvalidParams", "NoCurrentProject")
          /\ UNCHANGED <<documentation, disk, nextId>>
     ELSE /\ documentation' =
               Append(documentation,
                      Documentation(nextId, currentProject[1].p.id,
                                    SanitizeForJson(technology), SanitizeForJson(title),
                                    SanitizeForJson(content), "high", clock))
          /\ nextId' = nextId + 1
          /\ reply' = [BaseReply("add_documentation") EXCEPT !.id = nextId]
          /\ SaveData

RecordTechnicalDecision(decision, reasoning) ==
  /\ running
  /\ UNCHANGED <<manualBackups, dashboardRenames, backups, everBackups, now, inflight, running, projects, currentProject, conversations, notes, documentation,
                 idMapping, mapFile, legacy, clock, history, regenerated>>
  /\ nextId <= MaxIds
  /\ IF currentProject = <<>>
     THEN /\ reply' = ErrorReply("record_technical_decision", "InvalidParams",
                                 "NoCurrentProject")
          /\ UNCHANGED <<decisions, disk, nextId>>
     ELSE /\ decisions' =
               Append(decisions,
                      TechnicalDecision(nextId, currentProject[1].p.id,
                                        SanitizeForJson(decision),
                                        SanitizeForJson(reasoning), <<"a">>, clock))
          /\ nextId' = nextId + 1
          /\ reply' = [BaseReply("record_technical_decision") EXCEPT !.id = nextId]
          /\ SaveData

\* case 'create_manual_backup'
CreateManualBackup ==
  /\ running
  /\ UNCHANGED <<now, inflight, running, projects, currentProject, conversations, notes,
                 decisions, documentation, idMapping, disk, mapFile, legacy, nextId,
                 clock, history, regenerated, manualBackups, dashboardRenames>>
  /\ CreateBackup
  /\ reply' = BaseReply("create_manual_backup")

\* a millisecond passes
Tock ==
  /\ now < MaxNow
  /\ now' = now + 1
  /\ UNCHANGED <<manualBackups, dashboardRenames, backups, everBackups, inflight, running, projects, currentProject,
                 conversations, notes, decisions, documentation, idMapping, disk,
                 mapFile, legacy, nextId, clock, reply, history, regenerated>>

\* the calendar day changes
Tick ==
  /\ clock < MaxDay
  /\ clock' = clock + 1
  /\ UNCHANGED <<manualBackups, dashboardRenames, backups, everBackups, now, inflight, running, projects, currentProject, conversations, notes, decisions,
                 documentation, idMapping, disk, mapFile, legacy, nextId, reply,
                 history, regenerated>>

-----------------------------------------------------------------------------
(* Conversation ids: regeneration and resolution *)

\* resolveConversationId(inputId): NoId stands for null
ResolveConversationId(m, cs, inputId) ==
  IF \E i \in 1..Len(m) : m[i].oldId = inputId \/ m[i].newId = inputId
  THEN m[CHOOSE i \in 1..Len(m) :
           /\ (m[i].oldId = inputId \/ m[i].newId = inputId)
           /\ \A j \in 1..(i - 1) : ~(m[j].oldId = inputId \/ m[j].newId = inputId)].newId
  ELSE IF \E i \in 1..Len(cs) : cs[i].id = inputId \/ cs[i].originalId = inputId
  THEN cs[CHOOSE i \in 1..Len(cs) :
            /\ (cs[i].id = inputId \/ cs[i].originalId = inputId)
            /\ \A j \in 1..(i - 1) : ~(cs[j].id = inputId \/ cs[j].originalId = inputId)].id
  ELSE NoId

\* the entry regenerateAllConversationIds() records for conversation i
RegeneratedEntry(i) ==
  LET c == conversations[i]
  IN MappingEntry(c.id, nextId + i - 1, c.project_id,
                  IF SafeString(c.summary) # <<>> THEN SafeString(c.summary)
                  ELSE <<"Conversation">>,
                  c.timestamp, c.phase)

\* a regeneration that keeps only the entries it has just made
RegenerateReplacingMapping ==
  /\ running
  /\ UNCHANGED <<manualBackups, dashboardRenames, backups, everBackups, now, inflight, running, projects, currentProject, notes, decisions, documentation,
                 legacy, clock>>
  /\ nextId + Len(conversations) - 1 <= MaxIds
  /\ conversations' = [i \in 1..Len(conversations) |->
                         [conversations[i] EXCEPT !.id = nextId + i - 1,
                                                  !.originalId = conversations[i].id]]
  /\ idMapping' = SpreadMapping(<<>>, [i \in 1..Len(conversations) |-> RegeneratedEntry(i)])
  /\ nextId' = nextId + Len(conversations)
  /\ SaveIdMapping
  /\ SaveData
  /\ history' = [id \in Ids(conversations') |->
                   LET i == FindIndexById(conversations', id)
                   IN history[conversations[i].id] \cup {id}]
  /\ regenerated' = TRUE
  /\ reply' = [BaseReply("regenerate_conversation_ids") EXCEPT
                 !.removed = Len(conversations)]

RegenerateAllConversationIds ==
  /\ running
  /\ UNCHANGED <<manualBackups, dashboardRenames, backups, everBackups, now, inflight, running, projects, currentProject, notes, decisions, documentation,
                 legacy, clock>>
  /\ nextId + Len(conversations) - 1 <= MaxIds
  /\ conversations' = [i \in 1..Len(conversations) |->
                         [conversations[i] EXCEPT !.id = nextId + i - 1,
                                                  !.originalId = conversations[i].id]]
  /\ idMapping' = SpreadMapping(idMapping,
                    SpreadMapping(<<>>, [i \in 1..Len(conversations) |-> RegeneratedEntry(i)]))
  /\ nextId' = nextId + Len(conversations)
  /\ SaveIdMapping
  /\ SaveData
  /\ history' = [id \in Ids(conversations') |->
                   LET i == FindIndexById(conversations', id)
                   IN history[conversations[i].id] \cup {id}]
  /\ regenerated' = TRUE
  /\ reply' = [BaseReply("regenerate_conversation_ids") EXCEPT
                 !.removed = Len(conversations)]

-----------------------------------------------------------------------------
(* Duplicate detection and deletion of conversations *)

\* the test of the inner loop of detectDuplicateConversations()
IsDuplicateOf(current, other) ==
  LET currentSummary == SafeString(current.summary)
      otherSummary == SafeString(other.summary)
      titleSimilarity == \/ IncludesDoublon(SafeToLowerCase(currentSummary))
                         \/ IncludesDoublon(SafeToLowerCase(otherSummary))
                         \/ currentSummary = otherSummary
      currentLength == TextLength(current.content)
      otherLength == TextLength(other.content)
      contentSimilarity == /\ currentLength > 100
                           /\ otherLength > 100
                           /\ 10 * Abs(currentLength - otherLength) < currentLength
      sameDayCreation == current.timestamp = other.timestamp
  IN \/ (titleSimilarity /\ sameDayCreation)
     \/ (contentSimilarity /\ titleSimilarity)
     \/ IncludesDoublon(SafeToLowerCase(currentSummary))

\* the indices j > i (in order) that the inner loop pushes for the anchor i
DuplicatesOfAnchor(cs, i) ==
  SelectSeq([k \in 1..(Len(cs) - i) |-> i + k], LAMBDA j : IsDuplicateOf(cs[i], cs[j]))

\* the outer loop from index i on; members are array positions (object references)
RECURSIVE DetectFrom(_, _, _, _, _)
DetectFrom(cs, i, checkedIds, groups, duplicates) ==
  IF i > Len(cs) THEN [groups |-> groups, duplicates |-> duplicates]
  ELSE IF cs[i].id \in checkedIds THEN DetectFrom(cs, i + 1, checkedIds, groups, duplicates)
  ELSE LET others == DuplicatesOfAnchor(cs, i)
           checked == checkedIds \cup {cs[j].id : j \in Range(others)} \cup {cs[i].id}
       IN IF Len(others) > 0
          THEN DetectFrom(cs, i + 1, checked, Append(groups, <<i>> \o others),
                          duplicates \o others)
          ELSE DetectFrom(cs, i + 1, checked, groups, duplicates)

DetectDuplicateConversations(cs) == DetectFrom(cs, 1, {}, <<>>, <<>>)

\* a deletion that looks the input up as a current id, without resolving it
DeleteConversationUnresolved(st, input) ==
  LET i == FindIndexById(st.conversations, input)
  IN IF i = 0
     THEN [st EXCEPT !.success = FALSE]
     ELSE LET m == st.idMapping
              hit == {k \in 1..Len(m) : m[k].newId = input}
              first == IF hit = {} THEN 0 ELSE CHOOSE k \in hit : \A l \in hit : k <= l
          IN [success |-> TRUE,
              conversations |-> [k \in 1..(Len(st.conversations) - 1) |->
                                   IF k < i THEN st.conversations[k]
                                   ELSE st.conversations[k + 1]],
              idMapping |-> [k \in 1..(Len(m) - (IF first = 0 THEN 0 ELSE 1)) |->
                               IF first = 0 \/ k < first THEN m[k] ELSE m[k + 1]],
              removed |-> st.removed + 1]

\* deleteConversationSecure(conversationInput) on a store value
DeleteConversationSecure(st, input) ==
  LET resolvedId == ResolveConversationId(st.idMapping, st.conversations, input)
      i == FindIndexById(st.conversations, resolvedId)
  IN IF resolvedId = NoId \/ i = 0
     THEN [st EXCEPT !.success = FALSE]
     ELSE LET m == st.idMapping
              hit == {k \in 1..Len(m) : m[k].newId = resolvedId}
              first == IF hit = {} THEN 0 ELSE CHOOSE k \in hit : \A l \in hit : k <= l
          IN [success |-> TRUE,
              conversations |-> [k \in 1..(Len(st.conversations) - 1) |->
                                   IF k < i THEN st.conversations[k]
                                   ELSE st.conversations[k + 1]],
              idMapping |-> [k \in 1..(Len(m) - (IF first = 0 THEN 0 ELSE 1)) |->
                               IF first = 0 \/ k < first THEN m[k] ELSE m[k + 1]],
              removed |-> st.removed + 1]

StoreValue == [success |-> TRUE, conversations |-> conversations,
               idMapping |-> idMapping, removed |-> 0]

DeleteConversation(input) ==
  /\ running
  /\ UNCHANGED <<manualBackups, dashboardRenames, backups, everBackups, now, inflight, running, projects, currentProject, notes, decisions, documentation,
                 legacy, nextId, clock, regenerated>>
  /\ LET r == DeleteConversationSecure(StoreValue, input)
     IN IF r.success
        THEN /\ conversations' = r.conversations
             /\ idMapping' = r.idMapping
             /\ SaveData
             /\ SaveIdMapping
             /\ history' = KeepHistory(history, conversations')
             /\ reply' = [BaseReply("delete_conversation") EXCEPT !.removed = 1]
        ELSE /\ reply' = ErrorReply("delete_conversation", "", "NotFound")
             /\ UNCHANGED <<conversations, idMapping, disk, mapFile, history>>

DetectDuplicates ==
  /\ running
  /\ UNCHANGED <<manualBackups, dashboardRenames, backups, everBackups, now, inflight, running, projects, currentProject, conversations, notes, decisions,
                 documentation, idMapping, disk, mapFile, legacy, nextId, clock,
                 history, regenerated>>
  /\ LET d == DetectDuplicateConversations(conversations)
     IN reply' = [BaseReply("detect_duplicates") EXCEPT
                    !.groups = d.groups, !.duplicates = d.duplicates]

\* for (const duplicate of duplicates) await deleteConversationSecure(duplicate.id)
RECURSIVE CleanupLoop(_, _)
CleanupLoop(st, ids) ==
  IF ids = <<>> THEN st
  ELSE CleanupLoop([DeleteConversationSecure(st, ids[1]) EXCEPT !.success = TRUE], Tail(ids))

CleanupDuplicates ==
  /\ running
  /\ UNCHANGED <<manualBackups, dashboardRenames, backups, everBackups, now, inflight, running, projects, currentProject, notes, decisions, documentation,
                 legacy, nextId, clock, regenerated>>
  /\ LET d == DetectDuplicateConversations(conversations)
         ids == [k \in 1..Len(d.duplicates) |-> conversations[d.duplicates[k]].id]
         r == CleanupLoop(StoreValue, ids)
     IN /\ conversations' = r.conversations
        /\ idMapping' = r.idMapping
        /\ IF r.removed > 0 THEN SaveData /\ SaveIdMapping ELSE UNCHANGED <<disk, mapFile>>
        /\ history' = KeepHistory(history, conversations')
        /\ reply' = [BaseReply("cleanup_duplicates") EXCEPT
                       !.groups = d.groups, !.duplicates = d.duplicates,
                       !.removed = r.removed]

\* moveConversationSecure(conversationInput, targetProjectId, reason)
MoveConversation(input, target) ==
  /\ running
  /\ UNCHANGED <<manualBackups, dashboardRenames, backups, everBackups, now, inflight, running, projects, currentProject, notes, decisions, documentation,
                 idMapping, mapFile, legacy, nextId, clock, history, regenerated>>
  /\ LET resolvedId == ResolveConversationId(idMapping, conversations, input)
         i == FindIndexById(conversations, resolvedId)
     IN IF resolvedId = NoId \/ i = 0 \/ FindIndexById(projects, target) = 0
        THEN /\ reply' = ErrorReply("move_conversation_resolved", "", "NotFound")
             /\ UNCHANGED <<conversations, disk>>
        ELSE /\ conversations' = [conversations EXCEPT ![i].project_id = target]
             /\ reply' = BaseReply("move_conversation_resolved")
             /\ SaveData

-----------------------------------------------------------------------------
(* Inputs of the requests *)

UnknownId == MaxIds + 1   \* an id generateId() never issues within the bound

ProjectIdInputs == Ids(projects) \cup {UnknownId}

\* every id a client may hold: current, original and mapped ones
ConversationIdInputs ==
  Ids(conversations) \cup {conversations[i].originalId : i \in 1..Len(conversations)}
    \cup {idMapping[i].oldId : i \in 1..Len(idMapping)} \cup {UnknownId}

\* confirm_deletion as sent by a client: any JSON value, named by its literal
ConfirmInputs == {"true", "false", "undefined", "'false'"}

FaultInputs == {"none", "main", "mapping"}

CheckedOps == {"create_project", "rename_project"}

PlainNames == {<<"a">>, <<"b">>}

\* names exercising every rule of sanitizeForJson and the case folding
NameInputs == {<<"a">>, <<"A">>, <<"a", "SP">>, <<"a", "CTL">>,
               <<"DQ">>, <<"SQ">>, <<"BS">>, <<"FS">>}

PlainText == <<Line(5, FALSE, "none")>>

LineKinds == {Line(5, FALSE, "none"), Line(8, TRUE, "none"), Line(120, FALSE, "none")}

TextInputs == SeqsUpTo(LineKinds, MaxLines) \ {<<>>}

SummaryInputs == {<<"a">>, <<"b">>, <<"DOUBLON">>}

-----------------------------------------------------------------------------
(* The store: projects and their rows, process restarts with read faults,  *)
(* legacy documents under LEGACY_PATHS.                                    *)

Next ==
  \/ \E fault \in FaultInputs : Start(fault)
  \/ \E name \in PlainNames : nextId <= StoreIds /\ CreateProject(name, <<"a">>)
  \/ \E id \in ProjectIdInputs, confirm \in ConfirmInputs : DeleteProject(id, confirm)
  \/ \E id \in ProjectIdInputs : SwitchProject(id)
  \/ nextId <= StoreIds /\ ImportClaudeConversation(PlainText, <<"a">>, "", "full")
  \/ nextId <= StoreIds /\ CreateNote(<<"a">>, <<"a">>)
  \/ nextId <= StoreIds /\ AddDocumentation(<<"a">>, <<"a">>, <<"a">>)
  \/ nextId <= StoreIds /\ RecordTechnicalDecision(<<"a">>, <<"a">>)
  \/ MigrateLegacyData

Spec == Init /\ [][Next]_vars

-----------------------------------------------------------------------------
(* Project names: create_project and rename_project on a fresh archive *)

InitFresh == Init /\ legacy = << <<>>, <<>> >>

NextNames ==
  \/ Start("none")
  \/ \E op \in CheckedOps : MissingArguments(op)
  \/ \E name \in NameInputs : CreateProject(name, <<"a">>)
  \/ \E id \in ProjectIdInputs, name \in NameInputs, d \in {<<>>, <<"b">>} :
       RenameProject(id, name, d)

SpecNames == InitFresh /\ [][NextNames]_vars

-----------------------------------------------------------------------------
(* Renaming: by the server in memory, by the dashboard in the document *)

RenameInputs == {<<"A">>, <<"b">>}

NextRename ==
  \/ Start("none")
  \/ \E name \in PlainNames : CreateProject(name, <<"a">>)
  \/ notes = <<>> /\ CreateNote(<<"a">>, <<"a">>)
  \/ \E id \in ProjectIdInputs, name \in RenameInputs, d \in {<<>>, <<"b">>} :
       RenameProject(id, name, d)
  \/ \E id \in ProjectIdInputs, name \in {<<"b">>}, d \in {"undefined", <<"b">>} :
       DashboardRenameProject(id, name, d)

SpecRename == InitFresh /\ [][NextRename]_vars

-----------------------------------------------------------------------------
(* Archiving: import of texts in full or summarised, summarisation in place *)

NextArchive ==
  \/ Start("none")
  \/ CreateProject(<<"a">>, <<"a">>)
  \/ \E text \in TextInputs, archiveType \in {"full", "summary"} :
       /\ Len(conversations) < MaxArchived
       /\ ImportClaudeConversation(text, <<"a">>, "", archiveType)
  \/ \E id \in ConversationIdInputs, pct \in {50, 100} :
       /\ \A i \in 1..Len(conversations) : Len(conversations[i].content) <= MaxSummaryLines
       /\ ArchiveConversationSummary(id, pct)
  \/ \E id \in ConversationIdInputs : DeleteConversation(id)

SpecArchive == InitFresh /\ [][NextArchive]_vars

-----------------------------------------------------------------------------
(* Import: one conversation at a time, with or without a current project *)

NextImport ==
  \/ Start("none")
  \/ CreateProject(<<"a">>, <<"a">>)
  \/ \E text \in TextInputs, archiveType \in {"full", "summary"} :
       /\ conversations = <<>>
       /\ ImportClaudeConversation(text, <<"a">>, "", archiveType)
  \/ \E id \in ConversationIdInputs : DeleteConversation(id)

SpecImport == InitFresh /\ [][NextImport]_vars

-----------------------------------------------------------------------------
(* Conversation ids: regenerated, resolved, and used to move and delete *)

NextConv ==
  \/ Start("none")
  \/ CreateProject(<<"a">>, <<"a">>)
  \/ /\ Len(conversations) < MaxConvs
     /\ ImportClaudeConversation(PlainText, <<"a">>, "", "full")
  \/ RegenerateAllConversationIds
  \/ \E id \in ConversationIdInputs : DeleteConversation(id)
  \/ \E id \in ConversationIdInputs, target \in ProjectIdInputs : MoveConversation(id, target)

SpecConv == InitFresh /\ [][NextConv]_vars

-----------------------------------------------------------------------------
(* Duplicates: conversations imported over several days, detected, cleaned *)

NextDup ==
  \/ Start("none")
  \/ CreateProject(<<"a">>, <<"a">>)
  \/ \E text \in {PlainText, <<Line(120, FALSE, "none")>>}, summary \in SummaryInputs :
       /\ Len(conversations) < MaxDups
       /\ ImportClaudeConversation(text, summary, "", "full")
  \/ Tick
  \/ DetectDuplicates
  \/ CleanupDuplicates

SpecDup == InitFresh /\ [][NextDup]_vars

-----------------------------------------------------------------------------
(* Requests in flight.  A request handler is an async function: it runs up *)
(* to an await, and the event loop runs other callbacks until the awaited  *)
(* promise settles.  The server holds no queue and no lock, and the        *)
(* transport hands over each request as soon as it is read, so a handler   *)
(* can start while another one is suspended.  The steps below are the      *)
(* 'create_note' handler cut at the awaits of saveData().                  *)

Handler(op, id, pc, data) == [op |-> op, id |-> id, pc |-> pc, data |-> data]

RemoveAt(s, i) == SubSeq(s, 1, i - 1) \o SubSeq(s, i + 1, Len(s))

\* case 'create_note' up to 'await saveData()', and saveData() up to
\* 'await ensureMainDirectoryExists()'
CreateNoteBegin(title, content) ==
  /\ running
  /\ Len(inflight) < MaxInflight
  /\ nextId <= MaxCalls
  /\ UNCHANGED <<manualBackups, dashboardRenames, backups, everBackups, now, running, projects, currentProject,
                 conversations, decisions, documentation, idMapping, disk, mapFile,
                 legacy, clock, reply, history, regenerated>>
  /\ notes' = Append(notes, Note(nextId, SanitizeForJson(title), SanitizeForJson(content),
                                 clock, CurrentId(currentProject)))
  /\ nextId' = nextId + 1
  /\ inflight' = Append(inflight, Handler("create_note", nextId, "ensureDir", <<>>))

\* saveData() resumes: it builds the object from the collections as they are
\* now and calls fs.writeJson, which serialises it before it returns
SaveDataSnapshot(i) ==
  /\ i \in 1..Len(inflight)
  /\ inflight[i].pc = "ensureDir"
  /\ UNCHANGED <<manualBackups, dashboardRenames, backups, everBackups, now, running, projects, currentProject,
                 conversations, notes, decisions, documentation, idMapping, disk,
                 mapFile, legacy, nextId, clock, reply, history, regenerated>>
  /\ inflight' = [inflight EXCEPT ![i] =
                    Handler(@.op, @.id, "writeJson",
                            <<Document(projects, currentProject, conversations, notes,
                                       decisions, documentation)>>)]

\* the write completes, saveData() returns and the handler replies
SaveDataWritten(i) ==
  /\ i \in 1..Len(inflight)
  /\ inflight[i].pc = "writeJson"
  /\ UNCHANGED <<manualBackups, dashboardRenames, backups, everBackups, now, running, projects, currentProject,
                 conversations, notes, decisions, documentation, idMapping, mapFile,
                 legacy, nextId, clock, history, regenerated>>
  /\ disk' = inflight[i].data
  /\ inflight' = RemoveAt(inflight, i)
  /\ reply' = [BaseReply("create_note") EXCEPT !.id = inflight[i].id]

NextAsync ==
  \/ ~running /\ Start("none")
  \/ \E title \in PlainNames : CreateNoteBegin(title, <<"a">>)
  \/ \E i \in 1..MaxInflight : SaveDataSnapshot(i)
  \/ \E i \in 1..MaxInflight : SaveDataWritten(i)

SpecAsync == InitFresh /\ [][NextAsync]_vars

-----------------------------------------------------------------------------
(* The dashboard specification: the server creates projects, the dashboard *)
(* renames them in the document and copies the document on request.        *)

NextDashboard ==
  \/ Start("none")
  \/ \E name \in PlainNames : CreateProject(name, <<"a">>)
  \/ \E id \in ProjectIdInputs, d \in {"undefined", <<"b">>} :
       DashboardRenameProject(id, <<"b">>, d)
  \/ DashboardCreateBackup
  \/ now < MaxBackupNow /\ Tock

SpecDashboard == InitFresh /\ [][NextDashboard]_vars

-----------------------------------------------------------------------------
(* The load specification: loads that succeed or fall back, projects       *)
(* created in between, backups made on request.                            *)

NextLoad ==
  \/ \E fault \in FaultInputs : Start(fault)
  \/ \E name \in PlainNames : CreateProject(name, <<"a">>)
  \/ CreateManualBackup
  \/ now < MaxBackupNow /\ Tock

SpecLoad == InitFresh /\ [][NextLoad]_vars

-----------------------------------------------------------------------------
(* The dashboard's 'rename-project' handler cut at its awaits.  ipcMain     *)
(* starts a handler for every invocation it receives, so a second one can  *)
(* start while the first is suspended in fs.pathExists, fs.readJson or     *)
(* fs.writeJson.                                                           *)

\* the names typed into the cards
DashboardNames == {<<"b">>, <<"c">>}

\* ProjectCard.handleSave invokes the handler, which runs up to
\* 'await fs.pathExists(projectsFile)'
DashboardRenameBegin(id, newName, newDescription) ==
  /\ Len(inflight) < MaxInflight
  /\ UNCHANGED <<manualBackups, dashboardRenames, backups, everBackups, now, running,
                 projects, currentProject, conversations, notes, decisions,
                 documentation, idMapping, disk, mapFile, legacy, nextId, clock,
                 reply, history, regenerated>>
  /\ inflight' = Append(inflight, Handler("rename-project", id, "pathExists",
                                          <<newName, newDescription>>))

\* fs.pathExists answers: without a document the handler returns the failure,
\* with one it runs up to 'await fs.readJson(projectsFile)'
DashboardRenameExists(i) ==
  /\ i \in 1..Len(inflight)
  /\ inflight[i].op = "rename-project"
  /\ inflight[i].pc = "pathExists"
  /\ UNCHANGED <<manualBackups, dashboardRenames, backups, everBackups, now, running,
                 projects, currentProject, conversations, notes, decisions,
                 documentation, idMapping, disk, mapFile, legacy, nextId, clock,
                 history, regenerated>>
  /\ IF disk = <<>>
     THEN /\ inflight' = RemoveAt(inflight, i)
          /\ reply' = ErrorReply("dashboard_rename_project", "", "NotFound")
     ELSE /\ inflight' = [inflight EXCEPT ![i] = Handler(@.op, @.id, "readJson", @.data)]
          /\ UNCHANGED reply

\* fs.readJson answers with the document as it is now: the handler looks the
\* project up, assigns its name and description and calls fs.writeJson, which
\* serialises the object before it returns
DashboardRenameRead(i) ==
  /\ i \in 1..Len(inflight)
  /\ inflight[i].op = "rename-project"
  /\ inflight[i].pc = "readJson"
  /\ UNCHANGED <<manualBackups, dashboardRenames, backups, everBackups, now, running,
                 projects, currentProject, conversations, notes, decisions,
                 documentation, idMapping, disk, mapFile, legacy, nextId, clock,
                 history, regenerated>>
  /\ LET ps == disk[1].projects
         k == FindIndexById(ps, inflight[i].id)
         newName == inflight[i].data[1]
         newDescription == inflight[i].data[2]
     IN IF k = 0
        THEN /\ inflight' = RemoveAt(inflight, i)
             /\ reply' = ErrorReply("dashboard_rename_project", "", "NotFound")
        ELSE LET renamedProject == [ps[k] EXCEPT
                                      !.name = newName,
                                      !.description = IF newDescription # "undefined"
                                                      THEN newDescription ELSE @]
             IN /\ inflight' = [inflight EXCEPT ![i] =
                                  Handler(@.op, @.id, "writeJson",
                                          <<[disk[1] EXCEPT !.projects =
                                               [ps EXCEPT ![k] = renamedProject]]>>)]
                /\ UNCHANGED reply

\* the write completes and the handler returns { success: true, project }
DashboardRenameWritten(i) ==
  /\ i \in 1..Len(inflight)
  /\ inflight[i].op = "rename-project"
  /\ inflight[i].pc = "writeJson"
  /\ UNCHANGED <<manualBackups, backups, everBackups, now, running, projects,
                 currentProject, conversations, notes, decisions, documentation,
                 idMapping, mapFile, legacy, nextId, clock, history, regenerated>>
  /\ disk' = inflight[i].data
  /\ inflight' = RemoveAt(inflight, i)
  /\ dashboardRenames' =
       dashboardRenames \cup
         {[id |-> inflight[i].id,
           name |-> inflight[i].data[1].projects[
                      FindIndexById(inflight[i].data[1].projects, inflight[i].id)].name]}
  /\ reply' = [BaseReply("dashboard_rename_project") EXCEPT !.id = inflight[i].id]

NextOverlap ==
  \/ ~running /\ Start("none")
  \/ \E name \in PlainNames : CreateProject(name, <<"a">>)
  \/ \E id \in ProjectIdInputs, newName \in DashboardNames :
       DashboardRenameBegin(id, newName, <<"b">>)
  \/ \E i \in 1..MaxInflight : DashboardRenameExists(i)
  \/ \E i \in 1..MaxInflight : DashboardRenameRead(i)
  \/ \E i \in 1..MaxInflight : DashboardRenameWritten(i)

SpecOverlap == InitFresh /\ [][NextOverlap]_vars

-----------------------------------------------------------------------------
(* The backup specification: backups made by loadData() and on request,    *)
(* over more instants than the retention count.                            *)

NextBackup ==
  \/ Start("none")
  \/ projects = <<>> /\ CreateProject(<<"a">>, <<"a">>)
  \/ CreateManualBackup
  \/ Tock

SpecBackup == InitFresh /\ [][NextBackup]_vars

-----------------------------------------------------------------------------
(* Properties of the project operations *)

\* the rows of a collection that belong to project id
RowsOfProject(rows, id) == {r \in Range(rows) : r.project_id = id}

\* a collection lost exactly the rows of project id, the others keeping their order
LostExactly(before, after, id) ==
  /\ Len(after) = Len(before) - Cardinality({i \in 1..Len(before) : before[i].project_id = id})
  /\ RowsOfProject(after, id) = {}
  /\ after = SelectSeq(before, LAMBDA r : r \in Range(after))

\* C1 (cascade completeness): a delete_project request that succeeds on project P
\* removes P and exactly the conversations, notes, decisions and documentation
\* rows whose project_id is P.id, reports their numbers N, M, K, D, leaves the
\* rows of other projects as they were, and no row refers to P.id afterwards.
CascadeCompleteness ==
  [][(reply'.op = "delete_project" /\ reply'.kind = "ok") =>
       LET id == reply'.id
           count(rows) == Cardinality({i \in 1..Len(rows) : rows[i].project_id = id})
       IN /\ id \in Ids(projects)
          /\ id \notin Ids(projects')
          /\ Len(projects') = Len(projects) - 1
          /\ \A p \in Range(projects) : p.id # id => p \in Range(projects')
          /\ reply'.counts = <<count(conversations), count(notes), count(decisions),
                               count(documentation)>>
          /\ LostExactly(conversations, conversations', id)
          /\ LostExactly(notes, notes', id)
          /\ LostExactly(decisions, decisions', id)
          /\ LostExactly(documentation, documentation', id)]_vars

\* C1 witness: a project with rows of all four kinds was deleted while a row of
\* another project remains
CascadeWitness ==
  /\ reply.op = "delete_project"
  /\ reply.kind = "ok"
  /\ \A k \in 1..4 : reply.counts[k] >= 1
  /\ Len(projects) >= 1
  /\ Len(notes) >= 1

\* C2 (name uniqueness): in every state reached by create_project and
\* rename_project requests with arbitrary names, no two stored projects have
\* names that are equal when compared case-insensitively.
NameUniqueness ==
  \A i, j \in 1..Len(projects) :
    i # j => ToLowerCase(projects[i].name) # ToLowerCase(projects[j].name)

\* the projects of `after` are those of `before`, the one with this id differing
\* at most in its name and description
RenamedOnly(before, after, id) ==
  /\ Len(after) = Len(before)
  /\ \A j \in 1..Len(before) :
       IF before[j].id = id
       THEN after[j] = [before[j] EXCEPT !.name = after[j].name,
                                         !.description = after[j].description]
       ELSE after[j] = before[j]

\* C11 (rename frame): a rename changes only the name and description of the
\* project renamed, in the server's collections (rename_project) or in the
\* document (the dashboard's rename-project); every other project and every
\* row stay as they were.  rename_project fails with NotFound for an unknown id
\* and with DuplicateName when the new name equals, case-insensitively, the
\* name of another project, and then changes nothing.
RenameFrame ==
  [][/\ (reply'.op = "rename_project" /\ reply'.kind = "ok") =>
          /\ reply'.id \in Ids(projects)
          /\ RenamedOnly(projects, projects', reply'.id)
          /\ UNCHANGED <<conversations, notes, decisions, documentation>>
     /\ (reply'.op = "dashboard_rename_project" /\ reply'.kind = "ok") =>
          /\ RenamedOnly(disk[1].projects, disk'[1].projects, reply'.id)
          /\ disk'[1] = [disk[1] EXCEPT !.projects = disk'[1].projects]
          /\ UNCHANGED <<projects, conversations, notes, decisions, documentation>>
     /\ \A id \in ProjectIdInputs, name \in RenameInputs, d \in {<<>>, <<"b">>} :
          RenameProject(id, name, d) =>
            /\ id \notin Ids(projects) => reply'.kind = "NotFound"
            /\ (/\ id \in Ids(projects)
                /\ \E p \in Range(projects) :
                     p.id # id /\ ToLowerCase(p.name) = ToLowerCase(name))
               => reply'.kind = "DuplicateName"
            /\ reply'.kind # "ok" =>
                 UNCHANGED <<projects, currentProject, conversations, notes, decisions,
                             documentation, disk>>]_vars

\* C11 witness: the second of two projects was renamed and given a description
\* by the server while another project and a note exist
RenameWitness ==
  /\ reply.op = "rename_project"
  /\ reply.kind = "ok"
  /\ Len(projects) = 2
  /\ reply.id = projects[2].id
  /\ projects[2].description = <<"b">>
  /\ projects[1].name # projects[2].name
  /\ Len(notes) >= 1

\* C28 (rename of the current project): after a successful rename_project of
\* the project that is current, the current project, in memory and as
\* persisted in the document, is the project as renamed: it carries the new
\* name and the new description.
RenameReachesCurrent ==
  [][(reply'.op = "rename_project" /\ reply'.kind = "ok"
      /\ \E id \in ProjectIdInputs, name \in RenameInputs, d \in {<<>>, <<"b">>} :
           id = CurrentId(currentProject) /\ RenameProject(id, name, d)) =>
       LET i == FindIndexById(projects', reply'.id)
       IN /\ currentProject' # <<>>
          /\ currentProject'[1].p = projects'[i]
          /\ disk'[1].currentProject = <<projects'[i]>>]_vars

\* C9 (duplicate name): create_project with a name that equals, compared
\* case-insensitively, the name of an existing project fails with DuplicateName;
\* no project is added, currentProject is not changed and nothing is written.
CreateRejectsDuplicateName ==
  [][\A name \in NameInputs :
       (/\ CreateProject(name, <<"a">>)
        /\ \E p \in Range(projects) : ToLowerCase(p.name) = ToLowerCase(name))
       => /\ reply'.kind = "DuplicateName"
          /\ UNCHANGED <<projects, currentProject, disk, mapFile>>]_vars

\* C9 witness: a create_project request was rejected as a duplicate
DuplicateNameWitness ==
  /\ reply.op = "create_project"
  /\ reply.kind = "DuplicateName"
  /\ Len(projects) = 1
  /\ projects[1].name = <<"A">>

\* C10 (successful creation): a create_project request that succeeds appends one
\* project with an id no project or row carries, phase 'initial-setup' and status
\* 'active', makes it the current project, and leaves the earlier projects and
\* all conversations, notes, decisions and documentation as they were.
CreateAddsOneProject ==
  [][(reply'.op = "create_project" /\ reply'.kind = "ok") =>
       LET n == Len(projects)
           new == projects'[n + 1]
       IN /\ Len(projects') = n + 1
          /\ SubSeq(projects', 1, n) = projects
          /\ new.id = reply'.id
          /\ new.id \notin Ids(projects) \cup Ids(conversations) \cup Ids(notes)
                             \cup Ids(decisions) \cup Ids(documentation)
          /\ new.phase = "initial-setup"
          /\ new.status = "active"
          /\ currentProject' # <<>>
          /\ currentProject'[1].p = new
          /\ UNCHANGED <<conversations, notes, decisions, documentation>>]_vars

\* C10 witness: a second project was created beside a project that has rows,
\* and is the current one
CreateWitness ==
  /\ reply.op = "create_project"
  /\ reply.kind = "ok"
  /\ Len(projects) >= 2
  /\ CurrentId(currentProject) = reply.id
  /\ projects[Len(projects)].id = reply.id
  /\ Len(conversations) >= 1
  /\ Len(notes) >= 1

\* C6 (idempotent migration): when migrate_legacy_data runs twice in a row over
\* the same legacy documents, the second run reports 0 merged records and
\* leaves projects, conversations, notes, decisions and documentation as the
\* first run left them.
MigrationIdempotent ==
  [][(reply.op = "migrate_legacy_data" /\ reply'.op = "migrate_legacy_data") =>
       /\ reply'.migrated = 0
       /\ UNCHANGED <<projects, conversations, notes, decisions, documentation>>]_vars

\* C6 witness: a run of migrate_legacy_data found legacy documents holding
\* records and merged none of them, all being present already
MigrationWitness ==
  /\ reply.op = "migrate_legacy_data"
  /\ reply.found
  /\ reply.migrated = 0
  /\ Len(reply.sources) = 2
  /\ Len(projects) >= 1
  /\ Len(conversations) >= 3

\* the legacy locations at which a document exists, in the order of LEGACY_PATHS
LegacyFound(l) == SelectSeq([k \in 1..Len(l) |-> k], LAMBDA k : l[k] # <<>>)

\* C18: migrate_legacy_data reports a merged count equal to the number of
\* project, conversation, note, decision and documentation records the call
\* added to the collections, and exactly the legacy locations at which a
\* document was found.
MigratedCountsEveryRecord ==
  [][(reply'.op = "migrate_legacy_data" /\ MigrateLegacyData) =>
       /\ reply'.migrated = (Len(projects') - Len(projects))
                            + (Len(conversations') - Len(conversations))
                            + (Len(notes') - Len(notes))
                            + (Len(decisions') - Len(decisions))
                            + (Len(documentation') - Len(documentation))
       /\ reply'.sources = LegacyFound(legacy)]_vars

\* C16 (load fallback): when the read of the main document or of the mapping
\* document fails, loadData() still completes (the server starts) and leaves
\* projects, conversations, notes, decisions, documentation and the id
\* mapping empty.
LoadFallsBackToEmpty ==
  [][(reply'.op = "load" /\ reply'.kind = "fallback") =>
       /\ running'
       /\ projects' = <<>>
       /\ conversations' = <<>>
       /\ notes' = <<>>
       /\ decisions' = <<>>
       /\ documentation' = <<>>
       /\ idMapping' = <<>>]_vars

\* C16 witness: the server started on a document that holds projects and
\* conversations, the read of one document failed, and the store is empty
LoadFallbackWitness ==
  /\ reply.op = "load"
  /\ reply.kind = "fallback"
  /\ running
  /\ disk # <<>>
  /\ mapFile # <<>>
  /\ Len(disk[1].projects) >= 1
  /\ Len(disk[1].conversations) >= 1
  /\ projects = <<>>
  /\ conversations = <<>>

\* C7 (referential integrity): in every reachable state every project_id that
\* a conversation, note, decision or documentation row carries is the id of a
\* project in the projects collection.
ReferentialIntegrity ==
  \A rows \in {conversations, notes, decisions, documentation} :
    \A i \in 1..Len(rows) :
      rows[i].project_id # NoId => rows[i].project_id \in Ids(projects)

\* C27 (current project validity): once loadData() has returned, whether it
\* succeeded or fell back, the current project is null or carries the id of a
\* project of the projects collection; a delete_project of the current project
\* leaves a remaining project current, or null when none remains.
CurrentProjectValid ==
  /\ [](running => (currentProject = <<>> \/ CurrentId(currentProject) \in Ids(projects)))
  /\ [][(reply'.op = "delete_project" /\ reply'.kind = "ok"
         /\ CurrentId(currentProject) \notin Ids(projects') \cup {NoId}) =>
          IF projects' = <<>> THEN currentProject' = <<>>
          ELSE CurrentId(currentProject') \in Ids(projects')]_vars

\* C8 (confirmation required): delete_project with confirm_deletion other than
\* true fails with ConfirmationRequired whatever the id, and leaves the five
\* collections, currentProject and the persisted document as they were.
DeleteNeedsConfirmation ==
  [][\A id \in ProjectIdInputs, confirm \in ConfirmInputs \ {"true"} :
       DeleteProject(id, confirm)
       => /\ reply'.kind = "ConfirmationRequired"
          /\ UNCHANGED <<projects, conversations, notes, decisions, documentation,
                         currentProject, disk>>]_vars

-----------------------------------------------------------------------------
(* Properties of the conversation operations *)

\* C3 (id resolution closure): once regenerateAllConversationIds() has been
\* applied, every id a live conversation has carried resolves, through
\* resolveConversationId, to the current id of that conversation.
ResolutionClosure ==
  regenerated =>
    \A id \in DOMAIN history :
      \A old \in history[id] : ResolveConversationId(idMapping, conversations, old) = id

\* the ids the conversations carry or have carried
CarriedIds(cs, h) == Ids(cs) \cup UNION {h[id] : id \in DOMAIN h}

\* C25 (regeneration frame): regenerate_conversation_ids gives every
\* conversation a new id that no conversation carried before, the new ids
\* differing from one another, sets originalId to the previous id and adds a
\* mapping entry previous id -> new id; the number and order of the
\* conversations and every other field of each stay as they were, no mapping
\* entry that existed is removed, and no project, note, decision or
\* documentation row changes.
RegenerationFrame ==
  [][(reply'.op = "regenerate_conversation_ids" /\ RegenerateAllConversationIds) =>
       /\ Len(conversations') = Len(conversations)
       /\ \A i \in 1..Len(conversations) :
            /\ conversations'[i].id \notin CarriedIds(conversations, history)
            /\ \A j \in 1..Len(conversations) :
                 j # i => conversations'[j].id # conversations'[i].id
            /\ conversations'[i] = [conversations[i] EXCEPT
                                      !.id = conversations'[i].id,
                                      !.originalId = conversations[i].id]
            /\ \E e \in Range(idMapping') :
                 e.oldId = conversations[i].id /\ e.newId = conversations'[i].id
       /\ \A e \in Range(idMapping) : e \in Range(idMapping')
       /\ UNCHANGED <<projects, notes, decisions, documentation>>]_vars

\* the id of a conversation has been regenerated for the second time: the
\* mapping holds the entry of the first regeneration and that of the second
RegenerationWitness ==
  /\ reply.op = "regenerate_conversation_ids"
  /\ Len(conversations) = 1
  /\ Len(idMapping) = 2
  /\ idMapping[1].newId = conversations[1].originalId
  /\ idMapping[2].oldId = conversations[1].originalId
  /\ idMapping[2].newId = conversations[1].id

DuplicateGroupsDisjoint ==
  LET d == DetectDuplicateConversations(conversations)
  IN /\ \A g \in 1..Len(d.groups) : Len(d.groups[g]) >= 2
     /\ \A g, h \in 1..Len(d.groups) :
          g # h => Range(d.groups[g]) \cap Range(d.groups[h]) = {}
     /\ \A k, l \in 1..Len(d.duplicates) : k # l => d.duplicates[k] # d.duplicates[l]

\* C12 (import): import_claude_conversation fails with NoCurrentProject when
\* no project is current, adding no conversation; otherwise the conversation it
\* adds carries the id of the current project and, for archive type 'full',
\* the input text as content and its length as originalLength.
ImportIntoCurrentProject ==
  [][\A text \in TextInputs, archiveType \in {"full", "summary"} :
       (/\ reply'.op = "import_claude_conversation"
        /\ ImportClaudeConversation(text, <<"a">>, "", archiveType)) =>
         IF currentProject = <<>>
         THEN /\ reply'.kind = "NoCurrentProject"
              /\ UNCHANGED <<conversations, disk>>
         ELSE LET n == Len(conversations)
                  new == conversations'[n + 1]
              IN /\ reply'.kind = "ok"
                 /\ Len(conversations') = n + 1
                 /\ SubSeq(conversations', 1, n) = conversations
                 /\ new.project_id = currentProject[1].p.id
                 /\ new.archiveType = archiveType
                 /\ archiveType = "full" =>
                      /\ new.content = text
                      /\ new.originalLength = TextLength(text)
                      /\ TextLength(new.content) = TextLength(text)]_vars

\* C12 witness: a text of several lines was imported in full into the current
\* project
ImportWitness ==
  /\ reply.op = "import_claude_conversation"
  /\ reply.kind = "ok"
  /\ Len(conversations) >= 1
  /\ LET c == conversations[Len(conversations)]
     IN /\ c.id = reply.id
        /\ c.archiveType = "full"
        /\ Len(c.content) >= 2
        /\ c.project_id = CurrentId(currentProject)

\* the rule as stated: (a) marker in either summary and same day, or (b) both
\* contents longer than 100, lengths within 10% of the first, and marker in
\* either summary or identical summaries
StatedDuplicateRule(a, b) ==
  LET marker == IncludesDoublon(ToLowerCase(a.summary)) \/ IncludesDoublon(ToLowerCase(b.summary))
      la == TextLength(a.content)
      lb == TextLength(b.content)
  IN \/ (marker /\ a.timestamp = b.timestamp)
     \/ (/\ la > 100 /\ lb > 100 /\ 10 * Abs(la - lb) < la
         /\ (marker \/ a.summary = b.summary))

\* C13 (decision rule): a conversation is placed in the group anchored by an
\* earlier conversation only if the pair satisfies rule (a) or rule (b).
GroupedOnlyByRule ==
  LET d == DetectDuplicateConversations(conversations)
  IN \A g \in 1..Len(d.groups) :
       \A k \in 2..Len(d.groups[g]) :
         StatedDuplicateRule(conversations[d.groups[g][1]], conversations[d.groups[g][k]])

\* C14 (cleanup): cleanup_duplicates removes the conversations of the list of
\* removable duplicates and no other, so that of every group the anchor alone
\* remains, and reports as many removed as detected.
CleanupRemovesDuplicates ==
  [][reply'.op = "cleanup_duplicates" =>
       LET d == DetectDuplicateConversations(conversations)
           removable == {conversations[d.duplicates[k]].id : k \in 1..Len(d.duplicates)}
       IN /\ conversations' = SelectSeq(conversations, LAMBDA c : c.id \notin removable)
          /\ \A g \in 1..Len(d.groups) :
               {conversations[d.groups[g][k]].id : k \in 1..Len(d.groups[g])}
                 \cap Ids(conversations') = {conversations[d.groups[g][1]].id}
          /\ reply'.removed = Len(reply'.duplicates)]_vars

\* C5 (summary length bound): every conversation archived as a summary has a
\* content no longer than the original length recorded for it.
SummaryLengthBound ==
  \A i \in 1..Len(conversations) :
    conversations[i].archiveType = "summary" =>
      TextLength(conversations[i].content) <= conversations[i].originalLength

\* C26 (original length): originalLength is the character count of the text
\* before any summarisation: an import records the length of the text it was
\* given, and archive_conversation_summary records the length of the content
\* when that content is still the full text and keeps the recorded length when
\* the conversation is already a summary.
OriginalLengthKept ==
  [][/\ \A text \in TextInputs, archiveType \in {"full", "summary"} :
          (reply'.op = "import_claude_conversation" /\ reply'.kind = "ok"
           /\ ImportClaudeConversation(text, <<"a">>, "", archiveType)) =>
             conversations'[Len(conversations')].originalLength = TextLength(text)
     /\ \A id \in ConversationIdInputs, pct \in {50, 100} :
          (reply'.op = "archive_conversation_summary" /\ reply'.kind = "ok"
           /\ ArchiveConversationSummary(id, pct)) =>
             LET i == FindIndexById(conversations, id)
             IN conversations'[i].originalLength =
                  IF conversations[i].archiveType = "summary"
                  THEN conversations[i].originalLength
                  ELSE TextLength(conversations[i].content)]_vars

-----------------------------------------------------------------------------
(* Properties of the backups *)

\* the n greatest elements of S
Greatest(S, n) == {t \in S : Cardinality({u \in S : u > t}) < n}

\* C17: after any sequence of createBackup() calls, made on request or by
\* loadData(), at most 10 backups exist and they are the 10 with the greatest
\* timestamps among all the backups ever made; a step removes backups only
\* when more than 10 exist, and every backup it removes is older than every
\* backup it keeps.
BackupRetention ==
  /\ [](/\ Cardinality(backups) <= Retention
        /\ backups = Greatest(everBackups, Retention))
  /\ [][\A t \in backups \ backups' :
          /\ Cardinality(backups \cup {now}) > Retention
          /\ \A u \in backups' : t < u]_vars

\* more backups have been made than are retained, the last one on request
BackupRetentionWitness ==
  /\ reply.op = "create_manual_backup"
  /\ Cardinality(everBackups) > Retention
  /\ Cardinality(backups) = Retention
  /\ now \in backups

-----------------------------------------------------------------------------
(* Properties of the persistence *)

\* what loadData() would read: an absent document reads as an empty store
PersistedData(d) == IF d = <<>> THEN Document(<<>>, <<>>, <<>>, <<>>, <<>>, <<>>) ELSE d[1]

PersistedMapping(f) == IF f = <<>> THEN <<>> ELSE f[1]

IsMutatingOp(op) ==
  op \in {"create_project", "rename_project", "delete_project", "switch_project",
          "import_claude_conversation", "create_note", "regenerate_conversation_ids",
          "delete_conversation", "migrate_legacy_data"}

\* C19 (durability of success): when a mutating operation has returned a
\* success reply, the persisted documents equal the snapshot in memory: the
\* five collections, the current project and the id mapping.
SuccessIsDurable ==
  (IsMutatingOp(reply.op) /\ reply.kind = "ok") =>
     /\ PersistedData(disk) = Document(projects, currentProject, conversations, notes,
                                       decisions, documentation)
     /\ PersistedMapping(mapFile) = idMapping

-----------------------------------------------------------------------------
(* Properties of the request router *)

\* C20: the router processes one request at a time to completion: while a
\* handler is between its first and its last step, its awaited writes
\* included, no other handler has taken a step, so at most one handler is
\* suspended at any time.
OneRequestAtATime == Len(inflight) <= 1

-----------------------------------------------------------------------------
(* Properties of the two writers of the document *)

IsSavingOp(op) == op \in {"create_project", "rename_project", "create_note"}

\* C21 (last save wins): an edit the dashboard wrote to the document is neither
\* detected nor merged by the server: a request that saves leaves in memory
\* only projects it held before or the one it created or renamed, and the
\* document then holds the server's values: the projects, the five collections
\* and the current project.  The dashboard's rename replaces the document by
\* the document it read with the one project changed, and leaves the server's
\* memory as it was.
LastSaveWins ==
  [][/\ (IsSavingOp(reply'.op) /\ reply'.kind = "ok") =>
          /\ \A p \in Range(projects') : p \in Range(projects) \/ p.id = reply'.id
          /\ disk' = <<Document(projects', currentProject', conversations', notes',
                                decisions', documentation')>>
     /\ (reply'.op = "dashboard_rename_project" /\ reply'.kind = "ok") =>
          /\ disk # <<>>
          /\ \E i \in 1..Len(disk[1].projects) :
               /\ disk[1].projects[i].id = reply'.id
               /\ disk' = <<[disk[1] EXCEPT !.projects[i] = disk'[1].projects[i]]>>
          /\ UNCHANGED <<projects, currentProject, conversations, notes, decisions,
                         documentation, idMapping>>]_vars

\* the dashboard has renamed a project in the document while the server holds
\* the project under its earlier name
LastSaveWitness ==
  /\ running
  /\ reply.op = "dashboard_rename_project"
  /\ reply.kind = "ok"
  /\ \E i \in 1..Len(projects) :
       /\ projects[i].id = reply.id
       /\ disk[1].projects[i].id = reply.id
       /\ disk[1].projects[i].name # projects[i].name

\* C22 (backup before edit): a dashboard rename that succeeds makes, in the
\* same invocation, a backup copy of the document as it was before the edit:
\* a copy under 'manual_backups' or a subdirectory under the server's backups.
BackupBeforeEdit ==
  [][(reply'.op = "dashboard_rename_project" /\ reply'.kind = "ok"
      /\ \E id \in ProjectIdInputs, d \in {"undefined", <<"b">>} :
           DashboardRenameProject(id, <<"b">>, d)) =>
       \/ \E t \in DOMAIN manualBackups' :
            /\ manualBackups'[t].main = disk
            /\ t \in DOMAIN manualBackups => manualBackups'[t] # manualBackups[t]
       \/ everBackups' # everBackups]_vars

-----------------------------------------------------------------------------
(* Properties of the summariser *)

\* the summary as stated: both edge sections hold exactly floor(0.2 * T) lines
StatedSummary(lines, pct) ==
  LET L == Len(lines)
      T == (L * pct) \div 100
      edge == (T * 2) \div 10
      middle == SelectSeq(SliceSeq(lines, (L * 3) \div 10, (L * 7) \div 10), IsImportantLine)
  IN <<BannerStart>> \o [i \in 1..Min(edge, L) |-> lines[i]]
       \o <<EmptyLine, BannerMiddle>> \o [i \in 1..Min((T * 6) \div 10, Len(middle)) |-> middle[i]]
       \o <<EmptyLine, BannerEnd>> \o [i \in 1..Min(edge, L) |-> lines[L - Min(edge, L) + i]]

\* C24 (summariser line arithmetic): for a text of L >= 1 lines and the target
\* T = floor(L * ratio), archive_conversation_summary replaces the content by
\* the start banner, the first floor(0.2 * T) lines, the middle banner, at most
\* floor(0.6 * T) interesting lines of the indices floor(0.3 * L) up to
\* floor(0.7 * L) in their order, the end banner and exactly the last
\* floor(0.2 * T) lines.
SummaryLineArithmetic ==
  [][\A id \in ConversationIdInputs, pct \in {50, 100} :
       (reply'.op = "archive_conversation_summary" /\ reply'.kind = "ok"
        /\ ArchiveConversationSummary(id, pct)) =>
          LET i == FindIndexById(conversations, id)
          IN conversations'[i].content = StatedSummary(conversations[i].content, pct)]_vars

\* C29 (resolution soundness): in every state reached through imports,
\* regenerations, deletions and duplicate cleanups, resolveConversationId
\* answers, for every id given to it or ever carried by a conversation, either
\* nothing or the id of a conversation present in the collection.
ResolutionSound ==
  \A x \in ConversationIdInputs \cup CarriedIds(conversations, history) :
    ResolveConversationId(idMapping, conversations, x) \in {NoId} \cup Ids(conversations)

\* the document holds the name 'name' for the project 'id'
DocumentHolds(d, id, name) ==
  /\ d # <<>>
  /\ FindIndexById(d[1].projects, id) # 0
  /\ d[1].projects[FindIndexById(d[1].projects, id)].name = name

\* C30 (overlapping dashboard renames): two dashboard renames of two different
\* projects both take effect, however their read-modify-write sequences
\* overlap: when a rename returns success, the document holds its new name
\* and still holds the name that a rename of another project, returned
\* earlier with success, had put there.
OverlappingRenamesBothTakeEffect ==
  [][(reply'.op = "dashboard_rename_project" /\ reply'.kind = "ok"
      /\ \E i \in 1..MaxInflight : DashboardRenameWritten(i)) =>
       /\ \E r \in dashboardRenames' :
            r.id = reply'.id /\ DocumentHolds(disk', r.id, r.name)
       /\ \A r \in dashboardRenames :
            (r.id # reply'.id /\ DocumentHolds(disk, r.id, r.name)) =>
              DocumentHolds(disk', r.id, r.name)]_vars

=============================================================================
